---- MODULE Spec2Model ----
(***************************************************************************)
(* Pagination crawl orchestrator and adaptive rate limiter of              *)
(* astral-aggregator-v2, as state machines.                                *)
(*                                                                         *)
(*   Spec     the run of PaginationOrchestrator.process_site_with_         *)
(*            pagination for one seed URL (app/utils/                      *)
(*            pagination_orchestrator.py), with the detector and the       *)
(*            strategies it calls as operators.                            *)
(*   FairSpec the same run under weak fairness of its steps: the asyncio   *)
(*            event loop keeps running every task that can run.            *)
(*   SpecRL   an AdaptiveRateLimiter (app/utils/rate_limiter.py) under     *)
(*            any sequence of record_event calls and clock advances.       *)
(*                                                                         *)
(* Abstractions.  A URL is the pair of the pagination query parameter it   *)
(* carries and that parameter's value.  A page's HTML is the record of the *)
(* phrases the detector's regular expressions look for, together with what *)
(* the extractor returns on it.  Floating-point delays are fixed-point     *)
(* integers in milliseconds; confidence scores are integers in tenths.     *)
(***************************************************************************)
EXTENDS Integers, Sequences, FiniteSets, TLC

(***************************************************************************)
(* Bounds of the model.                                                    *)
(***************************************************************************)
MaxPagesBound   == 3    \* largest max_pages (argument and settings)
MaxRetriesBound == 2    \* largest settings.max_retries
MaxBatchBound   == 2    \* largest settings.concurrent_batches

NoneInt == -1           \* Python's None for an Optional[int]

Range(s) == { s[i] : i \in DOMAIN s }

Min(a, b) == IF a < b THEN a ELSE b
Max(a, b) == IF a > b THEN a ELSE b

RECURSIVE Pow2(_)
Pow2(n) == IF n = 0 THEN 1 ELSE 2 * Pow2(n - 1)

\* Python: x or y, for Optional[int] x
PyOr(x, y) == IF x # NoneInt /\ x # 0 THEN x ELSE y

\* Python: (a + b - 1) // b for b > 0
CeilDiv(a, b) == (a + b - 1) \div b

(***************************************************************************)
(* URLs and page contents.                                                 *)
(***************************************************************************)
BaseUrl == [kind |-> "base", n |-> 0]
NoUrl   == [kind |-> "none", n |-> 0]

\* The seed URLs: no pagination parameter, ?page=2, ?start=20
InitialUrls ==
    { BaseUrl, [kind |-> "page", n |-> 2], [kind |-> "start", n |-> 20] }

\* The text of a page, by the phrases the detector looks for: "page X of Y"
\* (pageOf), "showing A-B of C" (showing), "Next page: X of Y" (nextPage), a
\* bare "X of Y" (xOfY), "N results" (results; commas: N is written with
\* thousands separators), a next/previous link (nav); and what
\* extract_article_urls makes of it.  <<>> and NoneInt: the phrase is absent.
PageText(pageOf, showing, nextPage, xOfY, results, commas, nav, arts, extract_raises) ==
    [pageOf |-> pageOf, showing |-> showing, nextPage |-> nextPage,
     xOfY |-> xOfY, results |-> results, commas |-> commas, nav |-> nav,
     arts |-> arts, extract_raises |-> extract_raises]

Content(pageOf, showing, results, nav, arts, extract_raises) ==
    PageText(pageOf, showing, <<>>, <<>>, results, TRUE, nav, arts, extract_raises)

\* The pages the seed URL may serve.  Without pagination parameter: no
\* signal; a next link only; "page 1 of 2"; "page 2 of 5" with a next link;
\* "showing 1-20 of 50"; "showing 5-4 of 10"; "41 results"; no signal and a
\* page the extractor fails on.  With ?page=2: no signal; "page 2 of 5".
\* With ?start=20: no signal; "showing 5-4 of 10".
SeedContents(url) ==
    CASE url.kind = "base" ->
            { Content(<<>>, <<>>, NoneInt, FALSE, <<"a1", "a2">>, FALSE),
              Content(<<>>, <<>>, NoneInt, TRUE, <<"a1">>, FALSE),
              Content(<<1, 2>>, <<>>, NoneInt, FALSE, <<"a1">>, FALSE),
              Content(<<2, 5>>, <<>>, NoneInt, TRUE, <<"a1">>, FALSE),
              Content(<<>>, <<1, 20, 50>>, NoneInt, FALSE, <<"a1">>, FALSE),
              Content(<<>>, <<5, 4, 10>>, NoneInt, FALSE, <<"a1">>, FALSE),
              Content(<<>>, <<>>, 41, FALSE, <<"a1">>, FALSE),
              Content(<<>>, <<>>, NoneInt, FALSE, <<>>, TRUE) }
      [] url.kind = "page" ->
            { Content(<<>>, <<>>, NoneInt, FALSE, <<"a1", "a2">>, FALSE),
              Content(<<2, 5>>, <<>>, NoneInt, FALSE, <<"a1">>, FALSE) }
      [] OTHER ->
            { Content(<<>>, <<>>, NoneInt, FALSE, <<"a1", "a2">>, FALSE),
              Content(<<>>, <<5, 4, 10>>, NoneInt, FALSE, <<"a1">>, FALSE) }

\* What extract_article_urls returns on the listing page at url: neighbouring
\* pages share an article
SiteArticles(url) ==
    IF url.kind = "base" THEN <<"a1", "a2">>
    ELSE IF url.n % 2 = 0 THEN <<"a2", "a3">>
    ELSE <<"a3", "a1">>

\* The pages a URL of the page list may serve: the listing page, or a page
\* the extractor fails on
PageContents(url) ==
    { Content(<<>>, <<>>, NoneInt, FALSE, SiteArticles(url), FALSE),
      Content(<<>>, <<>>, NoneInt, FALSE, <<>>, TRUE) }

\* What one call of crawl_function does: it raises, returns nothing, or
\* returns one of the pages S
NoContent == Content(<<>>, <<>>, NoneInt, FALSE, <<>>, FALSE)
FetchOutcomes(S) ==
    { [kind |-> k, c |-> NoContent] : k \in {"exc", "none"} }
    \cup { [kind |-> "content", c |-> x] : x \in S }

(* A URL is also modelled with its query string, [kind |-> "url", query |-> q], *)
(* q the sequence of its name=value pairs [k |-> name, v |-> value] as        *)
(* written; "" is a blank value (?q=).                                        *)
Url(query) == [kind |-> "url", query |-> query]

RECURSIVE ParseQsFrom(_, _)
ParseQsFrom(d, pairs) ==
    IF pairs = <<>> THEN d
    ELSE LET pr == Head(pairs)
         IN  IF pr.v = "" THEN ParseQsFrom(d, Tail(pairs))
             ELSE IF \E i \in DOMAIN d : d[i].k = pr.k
                THEN ParseQsFrom([i \in DOMAIN d |->
                                    IF d[i].k = pr.k
                                    THEN [d[i] EXCEPT !.vs = Append(@, pr.v)]
                                    ELSE d[i]], Tail(pairs))
             ELSE ParseQsFrom(Append(d, [k |-> pr.k, vs |-> << pr.v >>]), Tail(pairs))

\* urllib.parse.parse_qs: the dict name -> list of values, in the order the
\* names first appear; pairs with a blank value are left out
ParseQs(query) == ParseQsFrom(<<>>, query)

DictKeys(d) == { d[i].k : i \in DOMAIN d }

\* query_params[k] = vs
DictSet(d, k, vs) ==
    IF k \in DictKeys(d)
    THEN [i \in DOMAIN d |-> IF d[i].k = k THEN [k |-> k, vs |-> vs] ELSE d[i]]
    ELSE Append(d, [k |-> k, vs |-> vs])

RECURSIVE UrlEncode(_)
\* urllib.parse.urlencode(query_params, doseq=True)
UrlEncode(d) ==
    IF d = <<>> THEN <<>>
    ELSE [j \in 1..Len(Head(d).vs) |-> [k |-> Head(d).k, v |-> Head(d).vs[j]]]
         \o UrlEncode(Tail(d))

\* int(v) of a query value: the values of digits only, and their numbers
QueryNumbers == [v \in {"2", "40"} |-> IF v = "2" THEN 2 ELSE 40]
IsDigits(v) == v \in DOMAIN QueryNumbers

\* the first value of parameter k in parse_qs(query), "" when k is not in it
FirstValue(d, k) ==
    IF k \in DictKeys(d)
    THEN (CHOOSE e \in Range(d) : e.k = k).vs[1]
    ELSE ""

\* the first of names that is a key of d, "" when none is
RECURSIVE FirstKeyIn(_, _)
FirstKeyIn(names, d) ==
    IF names = <<>> THEN ""
    ELSE IF Head(names) \in DictKeys(d) THEN Head(names)
    ELSE FirstKeyIn(Tail(names), d)

(***************************************************************************)
(* PaginationDetector.                                                     *)
(***************************************************************************)
\* _extract_base_url: the URL with its pagination parameters removed
ExtractBaseUrl(url) ==
    IF url.kind # "url" THEN BaseUrl
    ELSE Url(UrlEncode(SelectSeq(ParseQs(url.query),
            LAMBDA e : e.k \notin {"page", "p", "pg", "pageno", "start", "offset",
                                   "from", "begin", "limit", "per_page"})))

\* _detect_url_patterns: the trace strings of the URL patterns that match
DetectUrlPatterns(url) ==
    CASE url.kind = "page"  -> {"URL_PARAM_page_based"}
      [] url.kind = "start" -> {"URL_PARAM_offset_based"}
      [] url.kind = "url"   ->
            (IF \E i \in DOMAIN url.query :
                    /\ url.query[i].k \in {"page", "p", "pg", "pageno"}
                    /\ IsDigits(url.query[i].v)
                THEN {"URL_PARAM_page_based"} ELSE {})
            \cup (IF \E i \in DOMAIN url.query :
                        /\ url.query[i].k \in {"start", "offset", "from", "begin"}
                        /\ IsDigits(url.query[i].v)
                     THEN {"URL_PARAM_offset_based"} ELSE {})
      [] OTHER              -> {}

\* _detect_content_patterns: the trace strings of the content patterns
DetectContentPatterns(c) ==
    (IF c.pageOf # <<>> \/ c.showing # <<>> \/ c.nextPage # <<>> \/ c.xOfY # <<>>
        THEN {"CONTENT_PAGE_INDICATOR"} ELSE {})
    \cup (IF c.results # NoneInt THEN {"CONTENT_RESULT_COUNT"} ELSE {})
    \cup (IF c.results # NoneInt \/ c.nextPage # <<>>
             THEN {"CONTENT_GOV_UK"} ELSE {})

\* _extract_pagination_numbers, URL part: current_page from ?page= / ?start=
UrlCurrentPage(url) ==
    CASE url.kind = "start" -> (url.n \div 20) + 1
      [] url.kind = "page"  -> url.n
      [] url.kind = "url"   ->
            LET d == ParseQs(url.query)
                \* the loops stop at the first name present whose value is a number
                num(names) == SelectSeq(names, LAMBDA k : IsDigits(FirstValue(d, k)))
                pages   == num(<<"page", "p", "pg", "pageno">>)
                offsets == num(<<"start", "offset", "from", "begin">>)
            IN  IF offsets # <<>>
                    THEN (QueryNumbers[FirstValue(d, offsets[1])] \div 20) + 1
                ELSE IF pages # <<>> THEN QueryNumbers[FirstValue(d, pages[1])]
                ELSE NoneInt
      [] OTHER              -> NoneInt

\* _extract_numbers_from_content raises ZeroDivisionError: "showing A-B of C"
\* with B = A - 1 while current_page or total_pages is still unset
DetectRaises(c, url) ==
    /\ c.showing # <<>>
    /\ c.showing[2] - c.showing[1] + 1 = 0
    /\ LET current_page == IF c.pageOf # <<>> THEN c.pageOf[1] ELSE UrlCurrentPage(url)
           total_pages  == IF c.pageOf # <<>> THEN c.pageOf[2] ELSE NoneInt
       IN  current_page = NoneInt \/ total_pages = NoneInt

\* Python: a // b for b # 0 (floor, also for a negative divisor)
PyFloorDiv(a, b) == IF b > 0 THEN a \div b ELSE (0 - a) \div (0 - b)

\* int(group(1).replace(',', '')) of the first match of
\* (\d{1,3}(?:,\d{3})*)\s+results: without separators the match starts at
\* the last three digits
ResultsParsed(c) ==
    IF c.commas \/ c.results < 1000 THEN c.results ELSE c.results % 1000

\* _extract_pagination_numbers with _extract_numbers_from_content
ExtractPaginationNumbers(c, url) ==
    LET \* "page X of Y"
        hasPageOf == c.pageOf # <<>>
        cp1  == IF hasPageOf THEN c.pageOf[1] ELSE UrlCurrentPage(url)
        tp1  == IF hasPageOf THEN c.pageOf[2] ELSE NoneInt
        \* "showing A-B of C"
        hasShow == c.showing # <<>>
        ipp2 == IF hasShow THEN c.showing[2] - c.showing[1] + 1 ELSE NoneInt
        ti2  == IF hasShow THEN c.showing[3] ELSE NoneInt
        cp2  == IF hasShow /\ cp1 = NoneInt
                   THEN PyFloorDiv(c.showing[1], ipp2) + 1 ELSE cp1
        tp2  == IF hasShow /\ tp1 = NoneInt
                   THEN PyFloorDiv(c.showing[3] + ipp2 - 1, ipp2) ELSE tp1
        \* "Next page: X of Y"
        hasNext == c.nextPage # <<>>
        cp3  == IF hasNext THEN c.nextPage[1] ELSE cp2
        tp3  == IF hasNext THEN c.nextPage[2] ELSE tp2
        \* "X of Y": only while total_pages is unset, and only 1 <= X < Y
        general == /\ c.xOfY # <<>>
                   /\ tp3 = NoneInt
                   /\ 1 <= c.xOfY[1] /\ c.xOfY[1] < c.xOfY[2] /\ c.xOfY[2] > 1
        cp4  == IF general THEN c.xOfY[1] ELSE cp3
        tp4  == IF general THEN c.xOfY[2] ELSE tp3
        \* "N results"
        hasRes == c.results # NoneInt
        ti5  == IF hasRes THEN ResultsParsed(c) ELSE ti2
        ipp5 == IF hasRes /\ ipp2 = NoneInt THEN 20 ELSE ipp2
        tp5  == IF hasRes /\ ipp5 # 0
                   THEN PyFloorDiv(ResultsParsed(c) + ipp5 - 1, ipp5) ELSE tp4
    IN  [current_page |-> cp4, total_pages |-> tp5,
         current_items |-> ipp2, total_items |-> ti5, items_per_page |-> ipp5]

\* _classify_pagination_type
ClassifyPaginationType(patterns, total_pages, has_next_prev_links) ==
    LET content_patterns == { p \in patterns :
            p \in {"CONTENT_PAGE_INDICATOR", "CONTENT_RESULT_COUNT", "CONTENT_GOV_UK"} }
        param_patterns == { p \in patterns :
            p \in {"URL_PARAM_page_based", "URL_PARAM_offset_based"} }
    IN  IF content_patterns # {} /\ total_pages # NoneInt /\ total_pages # 0
           THEN "INDICATOR_BASED"
        ELSE IF param_patterns # {}
           THEN (IF "URL_PARAM_offset_based" \in param_patterns
                    THEN "OFFSET_BASED" ELSE "PARAMETER_BASED")
        ELSE IF has_next_prev_links THEN "LINK_BASED"
        ELSE IF content_patterns # {} THEN "INDICATOR_BASED"
        ELSE "NONE"

\* _calculate_confidence, in tenths
CalculateConfidence(has_pagination, patterns, has_links, nums) ==
    Min(10,
        (IF has_pagination THEN 3 ELSE 0)
      + (IF patterns # {} THEN 2 ELSE 0)
      + (IF has_links THEN 2 ELSE 0)
      + (IF nums.current_page # NoneInt THEN 1 ELSE 0)
      + (IF nums.total_pages # NoneInt THEN 1 ELSE 0)
      + (IF nums.total_items # NoneInt THEN 1 ELSE 0))

\* detect_pagination: the classification runs before the navigation links
\* are looked for, so it sees has_next_prev_links = False
DetectPagination(c, url) ==
    LET patterns == DetectUrlPatterns(url) \cup DetectContentPatterns(c)
        nums     == ExtractPaginationNumbers(c, url)
        ptype    == ClassifyPaginationType(patterns, nums.total_pages, FALSE)
        has      == patterns # {} \/ c.nav
    IN  [source_url |-> url, base_url |-> ExtractBaseUrl(url),
         has_pagination |-> has, pagination_type |-> ptype,
         current_page |-> nums.current_page, total_pages |-> nums.total_pages,
         total_items |-> nums.total_items, items_per_page |-> nums.items_per_page,
         has_next_prev_links |-> c.nav,
         confidence_score |-> CalculateConfidence(has, patterns, c.nav, nums)]


(***************************************************************************)
(* Pagination strategies.                                                  *)
(***************************************************************************)
Truthy(x) == x # NoneInt /\ x # 0

\* ParameterBasedStrategy._detect_parameter_name
DetectParameterName(base_url) ==
    IF base_url.kind # "url" THEN "page"
    ELSE LET k == FirstKeyIn(<<"page", "p", "pg", "pageno">>,
                             ParseQs(base_url.query))
         IN  IF k = "" THEN "page" ELSE k

\* ParameterBasedStrategy._add_page_parameter (parameter_name detected) /
\* IndicatorBasedStrategy._add_page_parameter (parameter_name 'page')
AddPageParameter(url, parameter_name, page) ==
    IF url.kind = "url"
    THEN Url(UrlEncode(DictSet(ParseQs(url.query), parameter_name,
                               << ToString(page) >>)))
    ELSE [kind |-> "page", n |-> page]

\* OffsetBasedStrategy._detect_offset_parameter
DetectOffsetParameter(base_url) ==
    IF base_url.kind # "url" THEN "start"
    ELSE LET k == FirstKeyIn(<<"start", "offset", "from", "begin">>,
                             ParseQs(base_url.query))
         IN  IF k = "" THEN "start" ELSE k

\* OffsetBasedStrategy._add_offset_parameter
AddOffsetParameter(url, offset_param, offset) ==
    IF url.kind = "url"
    THEN Url(UrlEncode(DictSet(ParseQs(url.query), offset_param,
                               << ToString(offset) >>)))
    ELSE [kind |-> "start", n |-> offset]

\* ParameterBasedStrategy.estimate_total_pages
ParameterEstimateTotalPages(info) ==
    IF Truthy(info.total_pages) THEN info.total_pages
    ELSE IF Truthy(info.total_items) /\ Truthy(info.items_per_page)
        THEN CeilDiv(info.total_items, info.items_per_page)
    ELSE IF info.confidence_score > 7 THEN 100
    ELSE IF info.confidence_score > 4 THEN 50
    ELSE 20

\* ParameterBasedStrategy.generate_page_urls
ParameterGeneratePageUrls(info, max_pages) ==
    LET est == ParameterEstimateTotalPages(info)
        total_pages == IF est > max_pages THEN max_pages ELSE est
    IN  [page \in 1..total_pages |->
            IF page = 1 THEN info.base_url
            ELSE AddPageParameter(info.base_url,
                                  DetectParameterName(info.base_url), page)]

\* OffsetBasedStrategy._detect_items_per_page (the base URL carries no limit
\* parameter: _extract_base_url removed it)
OffsetItemsPerPage(info) ==
    IF Truthy(info.items_per_page) THEN info.items_per_page ELSE 20

\* OffsetBasedStrategy.generate_page_urls
OffsetGeneratePageUrls(info, max_pages) ==
    LET items_per_page == OffsetItemsPerPage(info)
        total_items == PyOr(info.total_items, max_pages * items_per_page)
        total_pages == Min(CeilDiv(total_items, items_per_page), max_pages)
    IN  [k \in 1..total_pages |->
            IF k = 1 THEN info.base_url
            ELSE AddOffsetParameter(info.base_url,
                                    DetectOffsetParameter(info.base_url),
                                    (k - 1) * items_per_page)]

\* IndicatorBasedStrategy.generate_page_urls
IndicatorGeneratePageUrls(info, max_pages) ==
    LET total_pages == Min(PyOr(info.total_pages, 50), max_pages)
    IN  [page \in 1..total_pages |->
            IF page = 1 THEN info.base_url
            ELSE AddPageParameter(info.base_url, "page", page)]

\* LinkBasedStrategy.discover_all_pages: the base URL is put in discovered_urls
\* before the loop, so the first URL popped is skipped as already discovered,
\* the frontier is empty and nothing is fetched
DiscoverAllPages(info, max_pages) == << info.base_url >>

\* PaginationStrategyFactory.create_strategy: the strategy class of a type
CreateStrategy(pagination_type) ==
    CASE pagination_type = "OFFSET_BASED"    -> "OffsetBasedStrategy"
      [] pagination_type = "LINK_BASED"      -> "LinkBasedStrategy"
      [] pagination_type = "INDICATOR_BASED" -> "IndicatorBasedStrategy"
      [] OTHER                               -> "ParameterBasedStrategy"

\* strategy.generate_page_urls(max_pages).page_urls
GeneratePageUrls(info, max_pages) ==
    CASE CreateStrategy(info.pagination_type) = "OffsetBasedStrategy"
            -> OffsetGeneratePageUrls(info, max_pages)
      [] CreateStrategy(info.pagination_type) = "IndicatorBasedStrategy"
            -> IndicatorGeneratePageUrls(info, max_pages)
      [] OTHER -> ParameterGeneratePageUrls(info, max_pages)

(***************************************************************************)
(* LinkBasedStrategy.discover_all_pages on a site given by links (the list  *)
(* _extract_navigation_links returns on each page) and raises (the URLs     *)
(* crawl_function raises on).  d is the loop's state: to_visit,             *)
(* discovered_urls, visited_count, and the calls of crawl_function made.    *)
(***************************************************************************)
RECURSIVE DiscoverAddLinks(_, _, _)
\* the for loop over next_links
DiscoverAddLinks(d, next_links, max_pages) ==
    IF next_links = <<>> THEN d
    ELSE LET link == Head(next_links)
             d1   == IF link \notin d.discovered_urls
                        /\ Cardinality(d.discovered_urls) < max_pages
                     THEN [d EXCEPT !.to_visit = Append(@, link),
                                    !.discovered_urls = @ \cup {link}]
                     ELSE d
         IN  DiscoverAddLinks(d1, Tail(next_links), max_pages)

RECURSIVE DiscoverLoop_NoSeenSet(_, _, _, _)
\* a traversal that keeps no seen-set: every popped URL is fetched and every
\* link enqueued
DiscoverLoop_NoSeenSet(d, links, raises, max_pages) ==
    IF d.to_visit = <<>> \/ ~(d.visited_count < max_pages) THEN d
    ELSE LET current_url == Head(d.to_visit)
             popped == [d EXCEPT !.to_visit = Tail(@),
                                 !.fetches = Append(@, current_url)]
         IN  IF current_url \in raises
             THEN DiscoverLoop_NoSeenSet(popped, links, raises, max_pages)
             ELSE DiscoverLoop_NoSeenSet(
                     [popped EXCEPT !.discovered_urls = @ \cup {current_url},
                                    !.visited_count = @ + 1,
                                    !.to_visit = @ \o links[current_url]],
                     links, raises, max_pages)

RECURSIVE DiscoverLoop(_, _, _, _)
\* the while loop
DiscoverLoop(d, links, raises, max_pages) ==
    IF d.to_visit = <<>> \/ ~(d.visited_count < max_pages) THEN d
    ELSE LET current_url == Head(d.to_visit)
             popped == [d EXCEPT !.to_visit = Tail(@)]
         IN  IF current_url \in d.discovered_urls
             THEN DiscoverLoop(popped, links, raises, max_pages)
             ELSE LET called == [popped EXCEPT !.fetches = Append(@, current_url)]
                  IN  IF current_url \in raises
                      THEN DiscoverLoop(called, links, raises, max_pages)
                      ELSE DiscoverLoop(
                              DiscoverAddLinks(
                                  [called EXCEPT !.discovered_urls = @ \cup {current_url},
                                                 !.visited_count = @ + 1],
                                  links[current_url], max_pages),
                              links, raises, max_pages)

RECURSIVE SetToSeq(_)
SetToSeq(S) ==
    IF S = {} THEN <<>>
    ELSE LET x == CHOOSE y \in S : TRUE IN << x >> \o SetToSeq(S \ {x})

\* discover_all_pages: the list returned and the calls of crawl_function
DiscoverAllPagesOn(base_url, links, raises, max_pages) ==
    LET d == DiscoverLoop([to_visit |-> << base_url >>,
                           discovered_urls |-> {base_url},
                           visited_count |-> 0,
                           fetches |-> <<>>],
                          links, raises, max_pages)
    IN  [urls |-> SetToSeq(d.discovered_urls), fetches |-> d.fetches]

(***************************************************************************)
(* AdaptiveRateLimiter.  Delays are in milliseconds, the clock and the     *)
(* window in seconds.                                                      *)
(***************************************************************************)
SuccessThresholdPct   == 80     \* success_threshold = 0.8
RateLimitThresholdPct == 10     \* rate_limit_threshold = 0.1

\* AdaptiveRateLimiter.__init__
NewLimiter(min_delay, max_delay, window_size) ==
    [ min_delay |-> min_delay, max_delay |-> max_delay,
      window_size |-> window_size,
      current_delay |-> min_delay,
      events |-> <<>>,
      last_request_time |-> 0,
      rate_limit_count |-> 0,
      total_requests |-> 0 ]

\* x * (tenths / 10) on a millisecond delay
Scale(x, tenths) == (x * tenths) \div 10

\* _cleanup_old_events (timestamps never decrease along the deque, so
\* popping from the left while too old removes exactly the too old)
CleanupOldEvents(events, current_time, window_size) ==
    LET Recent(e) == ~(e.timestamp < current_time - window_size)
    IN  SelectSeq(events, Recent)

\* an increase that forgets the cap at max_delay
AdjustDelayForRateLimits_NoCap(l) ==
    IF l.total_requests # 0 /\ l.rate_limit_count * 10 > 3 * l.total_requests
        THEN Scale(l.current_delay, 15)
    ELSE IF l.total_requests # 0 /\ l.rate_limit_count * 10 > l.total_requests
        THEN Scale(l.current_delay, 12)
    ELSE l.current_delay

\* _adjust_delay_for_rate_limits: the rate is that of the limiter's lifetime
AdjustDelayForRateLimits(l) ==
    IF l.total_requests # 0 /\ l.rate_limit_count * 10 > 3 * l.total_requests
        THEN Min(Scale(l.current_delay, 15), l.max_delay)
    ELSE IF l.total_requests # 0 /\ l.rate_limit_count * 10 > l.total_requests
        THEN Min(Scale(l.current_delay, 12), l.max_delay)
    ELSE l.current_delay

\* _adjust_delay_for_success: the rate is that of the limiter's lifetime
AdjustDelayForSuccess(l) ==
    LET ok == l.total_requests - l.rate_limit_count IN
    IF l.total_requests # 0 /\ ok * 100 > 95 * l.total_requests
        THEN Max(Scale(l.current_delay, 8), l.min_delay)
    ELSE IF l.total_requests # 0 /\ ok * 10 > 8 * l.total_requests
        THEN Max(Scale(l.current_delay, 9), l.min_delay)
    ELSE l.current_delay

\* an adjustment that never takes the rate-limit branch
AdjustDelay_IgnoresRateLimits(l) ==
    LET total_in_window  == Len(l.events)
        success_count    == Cardinality({ i \in DOMAIN l.events : l.events[i].success })
        rate_limit_count == Cardinality({ i \in DOMAIN l.events : l.events[i].is_rate_limit })
    IN  IF total_in_window = 0 THEN l.current_delay
        ELSE IF /\ success_count * 100 > SuccessThresholdPct * total_in_window
                /\ rate_limit_count * 100 < 5 * total_in_window
            THEN AdjustDelayForSuccess(l)
        ELSE l.current_delay

\* _adjust_delay: the rates are those of the events in the window
AdjustDelay(l) ==
    LET total_in_window  == Len(l.events)
        success_count    == Cardinality({ i \in DOMAIN l.events : l.events[i].success })
        rate_limit_count == Cardinality({ i \in DOMAIN l.events : l.events[i].is_rate_limit })
    IN  IF total_in_window = 0 THEN l.current_delay
        ELSE IF rate_limit_count * 100 > RateLimitThresholdPct * total_in_window
            THEN AdjustDelayForRateLimits(l)
        ELSE IF /\ success_count * 100 > SuccessThresholdPct * total_in_window
                /\ rate_limit_count * 100 < 5 * total_in_window
            THEN AdjustDelayForSuccess(l)
        ELSE l.current_delay

\* record_event at clock time t
RecordEventAt(l, t, success, is_rate_limit) ==
    LET l1 == [l EXCEPT
                 !.events = CleanupOldEvents(
                     Append(@, [timestamp |-> t, success |-> success,
                                is_rate_limit |-> is_rate_limit]),
                     t, l.window_size),
                 !.total_requests = @ + 1,
                 !.rate_limit_count = @ + (IF is_rate_limit THEN 1 ELSE 0)]
    IN  [l1 EXCEPT !.current_delay = AdjustDelay(l1)]

\* get_delay at clock time t (here in the unit of the delays): the delay
\* returned and the limiter after the call; last_request_time is written only
\* when no wait is due
GetDelay(l, t) ==
    LET time_since_last == t - l.last_request_time
    IN  IF time_since_last < l.current_delay
        THEN [delay |-> l.current_delay - time_since_last, limiter |-> l]
        ELSE [delay |-> 0, limiter |-> [l EXCEPT !.last_request_time = t]]

(***************************************************************************)
(* PaginationOrchestrator: state.                                          *)
(***************************************************************************)
VARIABLES
    settings,          \* PaginationSettings of the orchestrator
    max_pages_arg,     \* the max_pages argument (NoneInt: not passed)
    initial_url,       \* the seed URL
    pc,                \* "seed", "analyze", "batch", "done"
    outcome,           \* "running", "returned" or "raised"
    finalized,         \* _finalize_crawl_result has run
    seed_attempt,      \* attempt counter of the seed's _safe_crawl
    seed_waited,       \* seconds the seed's _safe_crawl slept after its last call
    initial_content,   \* <<>> or <<the seed page>>
    crawl_result,      \* the CrawlResult being built
    self_total_pages_crawled,  \* PaginationOrchestrator.total_pages_crawled
    page_urls,         \* the page list given to _process_page_batch
    batch_size,        \* its batch_size argument
    batch_i,           \* the loop variable i of _process_page_batch
    tasks,             \* one record per page of the list
    fetched,           \* the URLs crawl_function has been called on
    fetch_count,       \* the number of calls of crawl_function
    batch_sleeps,      \* sleeps of rate_limit_delay between batches
    rl,                \* the AdaptiveRateLimiter
    now,               \* the clock (time.time()), in seconds
    streak,            \* the run of equal outcomes recorded in the limiter
    call               \* a call of a detector or strategy method: input, result

orch_vars == << settings, max_pages_arg, initial_url, pc, outcome, finalized,
                seed_attempt, seed_waited, initial_content, crawl_result,
                self_total_pages_crawled, page_urls, batch_size, batch_i, tasks,
                fetched, fetch_count, batch_sleeps >>

rl_vars == << rl, now >>

obs_vars == << streak, call >>

vars == << orch_vars, rl_vars, obs_vars >>

SettingsSet ==
    [ max_pages : {1, MaxPagesBound},
      concurrent_batches : 1..MaxBatchBound,
      max_retries : 1..MaxRetriesBound,
      enabled : BOOLEAN ]

\* CrawlResult(source_url=..., urls_discovered=[], article_urls=[], listing_urls=[])
NewCrawlResult(url) ==
    [ source_url |-> url, pagination_info |-> <<>>,
      urls_discovered |-> <<>>, article_urls |-> <<>>,
      total_pages_crawled |-> 0, total_urls_found |-> 0,
      crawling_time_stamped |-> FALSE,
      errors |-> <<>>, warnings |-> <<>> ]

ErrorMsg(kind, url) == [kind |-> kind, url |-> url]

\* the state at the call of process_site_with_pagination
OrchInit(settings_set, args, urls) ==
    /\ settings \in settings_set
    /\ max_pages_arg \in args
    /\ initial_url \in urls
    /\ pc = "seed"
    /\ outcome = "running"
    /\ finalized = FALSE
    /\ seed_attempt = 0
    /\ seed_waited = 0
    /\ initial_content = <<>>
    /\ crawl_result = NewCrawlResult(initial_url)
    /\ self_total_pages_crawled = 0
    /\ page_urls = <<>>
    /\ batch_size = 0
    /\ batch_i = 0
    /\ tasks = <<>>
    /\ fetched = {}
    /\ fetch_count = 0
    /\ batch_sleeps = 0

\* AdaptiveRateLimiter(): min_delay 1.0 s, max_delay 10.0 s, window_size 60 s
DefaultLimiter == NewLimiter(1000, 10000, 60)

\* no outcome recorded yet; no method called
NoStreak == [phase |-> "before", kind |-> "none", n |-> 0, free |-> 0,
             start_delay |-> 0, start_total |-> 0]
NoCall   == [fn |-> "none"]

Init ==
    /\ OrchInit(SettingsSet, {NoneInt} \cup 0..MaxPagesBound, InitialUrls)
    /\ rl = DefaultLimiter
    /\ now = 0
    /\ streak = NoStreak
    /\ call = NoCall

(***************************************************************************)
(* PaginationOrchestrator: operations.                                     *)
(***************************************************************************)
\* _safe_crawl: the seconds slept after attempt number `attempt` ended as
\* `kind` ("exc": crawl_function raised, "none": it returned nothing)
BackoffSleep(kind, attempt, max_retries) ==
    IF kind = "exc" /\ attempt < max_retries - 1 THEN Pow2(attempt) ELSE 0

\* process_site_with_pagination: the page budget given to the strategy
EffectiveMaxPages(arg, settings_max_pages) == PyOr(arg, settings_max_pages)

\* _finalize_crawl_result
FinalizeCrawlResult(cr, self_pages) ==
    LET unique == SetToSeq(Range(cr.article_urls))
    IN  [cr EXCEPT !.crawling_time_stamped = TRUE,
                   !.total_pages_crawled = self_pages,
                   !.article_urls = unique,
                   !.total_urls_found = Len(unique)]

\* an update written from a copy of urls_discovered read before another task
\* of the same batch appended its URL
PageUpdate_StaleRead(cr, url, arts) ==
    LET other == \E q \in (batch_i + 1)..Min(batch_i + batch_size, Len(tasks)) :
                     tasks[q].st = "ok"
        read  == IF other
                 THEN SubSeq(cr.urls_discovered, 1, Len(cr.urls_discovered) - 1)
                 ELSE cr.urls_discovered
    IN  [cr EXCEPT !.article_urls = @ \o arts,
                   !.urls_discovered = Append(read, url),
                   !.total_pages_crawled = @ + 1,
                   !.total_urls_found = @ + Len(arts)]

\* _process_single_page_async / _process_single_page: the update of the result
\* after a page was extracted
PageUpdate(cr, url, arts) ==
    [cr EXCEPT !.article_urls = @ \o arts,
               !.urls_discovered = Append(@, url),
               !.total_pages_crawled = @ + 1,
               !.total_urls_found = @ + Len(arts)]

SinglePageUpdate(cr, url, arts) ==
    [cr EXCEPT !.article_urls = @ \o arts,
               !.urls_discovered = Append(@, url),
               !.total_pages_crawled = 1,
               !.total_urls_found = Len(arts)]

\* a handler that records the error and lets the exception go on
OuterHandler_Reraise(cr) ==
    [ result |-> [cr EXCEPT !.errors = Append(@, ErrorMsg("orchestration", NoUrl))],
      outcome |-> "raised" ]

\* process_site_with_pagination, except Exception: the error is recorded and
\* the result returned as it is
OuterHandler(cr) ==
    [ result |-> [cr EXCEPT !.errors = Append(@, ErrorMsg("orchestration", NoUrl))],
      outcome |-> "returned" ]

\* a seed failure that returns without recording the error
SeedFailed_NoError(cr, url) == cr

\* process_site_with_pagination: the seed could not be fetched
SeedFailed(cr, url) == [cr EXCEPT !.errors = Append(@, ErrorMsg("seed", url))]

\* a page task: st is "pending", "run", "ok", "failed" (_safe_crawl returned
\* None) or "raised"; attempt counts its calls of crawl_function; waited is
\* the seconds _safe_crawl slept after the last call; runs counts the task
\* objects created for the page
NewTask == [st |-> "pending", runs |-> 0, attempt |-> 0, waited |-> 0]

\* the page indexes of the batch that starts after index i
Chunk(i, size, total) == (i + 1)..Min(i + size, total)

\* the tasks of the batch after index i are created and run; the finished
\* tasks of the batch before are gone, their outcome is kept
StartBatch(ts, i, size) ==
    [j \in DOMAIN ts |->
        IF j \in Chunk(i, size, Len(ts))
            THEN [ts[j] EXCEPT !.st = "run", !.runs = @ + 1]
        ELSE [ts[j] EXCEPT !.attempt = 0, !.waited = 0]]

\* _safe_crawl for the seed URL: one call of crawl_function
SeedAttempt ==
    /\ pc = "seed"
    /\ seed_attempt < settings.max_retries
    /\ fetched' = fetched \cup {initial_url}
    /\ fetch_count' = fetch_count + 1
    /\ \E o \in FetchOutcomes(SeedContents(initial_url)) :
         IF o.kind # "content"
         THEN /\ seed_attempt' = seed_attempt + 1
              /\ seed_waited' = BackoffSleep(o.kind, seed_attempt, settings.max_retries)
              /\ IF seed_attempt + 1 = settings.max_retries
                 THEN /\ crawl_result' = SeedFailed(crawl_result, initial_url)
                      /\ pc' = "done"
                      /\ outcome' = "returned"
                 ELSE UNCHANGED << crawl_result, pc, outcome >>
              /\ UNCHANGED initial_content
         ELSE /\ initial_content' = << o.c >>
              /\ pc' = "analyze"
              /\ UNCHANGED << seed_attempt, seed_waited, crawl_result, outcome >>
    /\ UNCHANGED << rl_vars, obs_vars >>
    /\ UNCHANGED << settings, max_pages_arg, initial_url, finalized,
                    self_total_pages_crawled, page_urls, batch_size, batch_i,
                    tasks, batch_sleeps >>

\* detect_pagination raises: the outer handler returns the result
AnalyzeRaises ==
    /\ pc = "analyze"
    /\ DetectRaises(initial_content[1], initial_url)
    /\ crawl_result' = OuterHandler(crawl_result).result
    /\ outcome' = OuterHandler(crawl_result).outcome
    /\ pc' = "done"
    /\ UNCHANGED << rl_vars, obs_vars >>
    /\ UNCHANGED << settings, max_pages_arg, initial_url, finalized, seed_attempt,
                    seed_waited, initial_content, self_total_pages_crawled,
                    page_urls, batch_size, batch_i, tasks, fetched, fetch_count,
                    batch_sleeps >>

\* no pagination, or pagination disabled: _process_single_page, then finalize
AnalyzeSinglePage ==
    /\ pc = "analyze"
    /\ ~DetectRaises(initial_content[1], initial_url)
    /\ LET c    == initial_content[1]
           info == DetectPagination(c, initial_url)
           cr1  == [crawl_result EXCEPT !.pagination_info = << info >>]
           cr2  == IF c.extract_raises
                      THEN [cr1 EXCEPT !.errors = Append(@, ErrorMsg("single", initial_url))]
                      ELSE SinglePageUpdate(cr1, initial_url, c.arts)
       IN  /\ ~(info.has_pagination /\ settings.enabled)
           /\ crawl_result' = FinalizeCrawlResult(cr2, self_total_pages_crawled)
    /\ finalized' = TRUE
    /\ outcome' = "returned"
    /\ pc' = "done"
    /\ UNCHANGED << rl_vars, obs_vars >>
    /\ UNCHANGED << settings, max_pages_arg, initial_url, seed_attempt, seed_waited,
                    initial_content, self_total_pages_crawled, page_urls,
                    batch_size, batch_i, tasks, fetched, fetch_count, batch_sleeps >>

\* pagination detected: _handle_paginated_content up to the first batch's gather
AnalyzePaginated ==
    /\ pc = "analyze"
    /\ ~DetectRaises(initial_content[1], initial_url)
    /\ LET info   == DetectPagination(initial_content[1], initial_url)
           budget == EffectiveMaxPages(max_pages_arg, settings.max_pages)
           link   == info.pagination_type = "LINK_BASED"
           urls   == IF link THEN DiscoverAllPages(info, budget)
                             ELSE GeneratePageUrls(info, budget)
           size   == IF link THEN 1 ELSE settings.concurrent_batches
           cr1    == [crawl_result EXCEPT !.pagination_info = << info >>]
       IN  /\ info.has_pagination /\ settings.enabled
           /\ page_urls' = urls
           /\ batch_size' = size
           /\ batch_i' = 0
           /\ tasks' = StartBatch([j \in 1..Len(urls) |-> NewTask], 0, size)
           /\ IF Len(urls) = 0
              THEN /\ crawl_result' = FinalizeCrawlResult(cr1, self_total_pages_crawled)
                   /\ finalized' = TRUE
                   /\ outcome' = "returned"
                   /\ pc' = "done"
              ELSE /\ crawl_result' = cr1
                   /\ pc' = "batch"
                   /\ UNCHANGED << finalized, outcome >>
    /\ UNCHANGED << rl_vars, obs_vars >>
    /\ UNCHANGED << settings, max_pages_arg, initial_url, seed_attempt, seed_waited,
                    initial_content, self_total_pages_crawled, fetched,
                    fetch_count, batch_sleeps >>

\* _process_single_page_async for page p: one call of crawl_function by its
\* _safe_crawl and, when it returns content, the extraction and the update
TaskAttempt(p) ==
    /\ pc = "batch"
    /\ p \in DOMAIN tasks
    /\ tasks[p].st = "run"
    /\ fetched' = fetched \cup {page_urls[p]}
    /\ fetch_count' = fetch_count + 1
    /\ \E o \in FetchOutcomes(PageContents(page_urls[p])) :
         LET a == tasks[p].attempt IN
         IF o.kind # "content"
         THEN /\ tasks' = [tasks EXCEPT
                    ![p].attempt = a + 1,
                    ![p].waited = BackoffSleep(o.kind, a, settings.max_retries),
                    ![p].st = IF a + 1 = settings.max_retries THEN "failed" ELSE "run"]
              /\ UNCHANGED crawl_result
         ELSE IF o.c.extract_raises
         THEN /\ tasks' = [tasks EXCEPT ![p].attempt = a + 1, ![p].waited = 0,
                                         ![p].st = "raised"]
              /\ UNCHANGED crawl_result
         ELSE /\ tasks' = [tasks EXCEPT ![p].attempt = a + 1, ![p].waited = 0,
                                         ![p].st = "ok"]
              /\ crawl_result' = PageUpdate(crawl_result, page_urls[p], o.c.arts)
    /\ UNCHANGED << rl_vars, obs_vars >>
    /\ UNCHANGED << settings, max_pages_arg, initial_url, pc, outcome, finalized,
                    seed_attempt, seed_waited, initial_content,
                    self_total_pages_crawled, page_urls, batch_size, batch_i,
                    batch_sleeps >>

\* the errors _process_page_batch appends for the exceptions gather returned
BatchErrors(ts, urls, i, size) ==
    LET idx == [k \in 1..(Min(i + size, Len(ts)) - i) |-> i + k]
        Raised(j) == ts[j].st = "raised"
        bad == SelectSeq(idx, Raised)
    IN  [k \in 1..Len(bad) |-> ErrorMsg("page", urls[bad[k]])]

\* a sleep after every batch, the last one too
SleepsAfterBatch_Always(i, size, total) == TRUE

\* whether _process_page_batch sleeps rate_limit_delay after the batch at i
SleepsAfterBatch(i, size, total) == i + size < total

\* _process_page_batch: gather has returned for the batch at batch_i
BatchEnd ==
    /\ pc = "batch"
    /\ \A j \in Chunk(batch_i, batch_size, Len(tasks)) : tasks[j].st # "run"
    /\ LET cr1 == [crawl_result EXCEPT
                      !.errors = @ \o BatchErrors(tasks, page_urls, batch_i, batch_size)]
       IN  IF batch_i + batch_size < Len(page_urls)
           THEN /\ batch_i' = batch_i + batch_size
                /\ tasks' = StartBatch(tasks, batch_i + batch_size, batch_size)
                /\ crawl_result' = cr1
                /\ UNCHANGED << pc, outcome, finalized >>
           ELSE /\ crawl_result' = FinalizeCrawlResult(cr1, self_total_pages_crawled)
                /\ finalized' = TRUE
                /\ outcome' = "returned"
                /\ pc' = "done"
                /\ tasks' = StartBatch(tasks, Len(tasks), batch_size)
                /\ UNCHANGED batch_i
    /\ batch_sleeps' = batch_sleeps
            + (IF SleepsAfterBatch(batch_i, batch_size, Len(page_urls)) THEN 1 ELSE 0)
    /\ UNCHANGED << rl_vars, obs_vars >>
    /\ UNCHANGED << settings, max_pages_arg, initial_url, seed_attempt, seed_waited,
                    initial_content, self_total_pages_crawled, page_urls,
                    batch_size, fetched, fetch_count >>

Next ==
    \/ SeedAttempt
    \/ AnalyzeRaises
    \/ AnalyzeSinglePage
    \/ AnalyzePaginated
    \/ \E p \in 1..MaxPagesBound : TaskAttempt(p)
    \/ BatchEnd

Spec == Init /\ [][Next]_vars

\* The same run with the page budget taken from the settings, under weak
\* fairness: the event loop runs every task that can take a step, and every
\* call of crawl_function ends
FairInit ==
    /\ OrchInit(SettingsSet, {NoneInt}, InitialUrls)
    /\ rl = DefaultLimiter
    /\ now = 0
    /\ streak = NoStreak
    /\ call = NoCall

FairSpec == FairInit /\ [][Next]_vars /\ WF_vars(Next)

(***************************************************************************)
(* AdaptiveRateLimiter under any sequence of record_event calls.           *)
(***************************************************************************)
MaxEvents == 6      \* record_event calls in a run
MaxClock  == 3      \* the clock stops advancing here
MaxWindow == 2      \* largest window_size

\* (min_delay, max_delay) of the limiters checked, in milliseconds
LimiterDelays == { <<1000, 10000>>, <<1000, 1000>>, <<500, 2000>> }

\* the outcomes callers record: success, failure, rate-limited failure
EventOutcomes == { <<TRUE, FALSE>>, <<FALSE, FALSE>>, <<FALSE, TRUE>> }

InitRL ==
    /\ OrchInit({[max_pages |-> 1, concurrent_batches |-> 1,
                  max_retries |-> 1, enabled |-> TRUE]}, {NoneInt}, {BaseUrl})
    /\ rl \in { NewLimiter(d[1], d[2], w) : d \in LimiterDelays, w \in 1..MaxWindow }
    /\ now = 0
    /\ streak = NoStreak
    /\ call = NoCall

\* record_event(success, is_rate_limit)
RecordEvent(success, is_rate_limit) ==
    /\ rl.total_requests < MaxEvents
    /\ rl' = RecordEventAt(rl, now, success, is_rate_limit)
    /\ UNCHANGED now
    /\ UNCHANGED << orch_vars, obs_vars >>

\* time passes
Tick ==
    /\ now < MaxClock
    /\ now' = now + 1
    /\ UNCHANGED rl
    /\ UNCHANGED << orch_vars, obs_vars >>

NextRL ==
    \/ \E o \in EventOutcomes : RecordEvent(o[1], o[2])
    \/ Tick

SpecRL == InitRL /\ [][NextRL]_vars

(***************************************************************************)
(* AdaptiveRateLimiter under a run of equal outcomes: up to MaxFree         *)
(* arbitrary record_event calls, of which some come before and the rest     *)
(* after StreakLen consecutive calls with the same outcome.                 *)
(***************************************************************************)
StreakLen   == 20   \* consecutive equal outcomes
MaxFree     == 1    \* record_event calls outside the run
StreakClock == 2    \* the clock stops advancing here

StreakKinds == { "success", "rate_limit" }

InitStreak ==
    /\ OrchInit({[max_pages |-> 1, concurrent_batches |-> 1,
                  max_retries |-> 1, enabled |-> TRUE]}, {NoneInt}, {BaseUrl})
    /\ rl \in { NewLimiter(d[1], d[2], w) : d \in LimiterDelays, w \in 1..MaxWindow }
    /\ now = 0
    /\ streak = NoStreak
    /\ call = NoCall

\* record_event(success, is_rate_limit) outside the run
FreeEvent(success, is_rate_limit) ==
    /\ streak.phase \in {"before", "after"}
    /\ streak.free < MaxFree
    /\ rl' = RecordEventAt(rl, now, success, is_rate_limit)
    /\ streak' = [streak EXCEPT !.free = @ + 1]
    /\ UNCHANGED << now, call, orch_vars >>

\* record_event(True) or record_event(False, is_rate_limit=True) of the run
StreakEvent(kind) ==
    /\ \/ streak.phase = "before"
       \/ streak.phase = "in" /\ streak.kind = kind
    /\ rl' = RecordEventAt(rl, now, kind = "success", kind = "rate_limit")
    /\ streak' =
          [ phase |-> IF streak.n + 1 = StreakLen THEN "after" ELSE "in",
            kind |-> kind,
            n |-> streak.n + 1,
            free |-> streak.free,
            start_delay |-> IF streak.phase = "before"
                               THEN rl.current_delay ELSE streak.start_delay,
            start_total |-> IF streak.phase = "before"
                               THEN rl.total_requests ELSE streak.start_total ]
    /\ UNCHANGED << now, call, orch_vars >>

\* time passes
TickStreak ==
    /\ now < StreakClock
    /\ now' = now + 1
    /\ UNCHANGED << rl, obs_vars, orch_vars >>

NextStreak ==
    \/ \E o \in EventOutcomes : FreeEvent(o[1], o[2])
    \/ \E kind \in StreakKinds : StreakEvent(kind)
    \/ TickStreak

SpecStreak == InitStreak /\ [][NextStreak]_vars

(***************************************************************************)
(* One call of LinkBasedStrategy.discover_all_pages on any site of three    *)
(* pages.                                                                   *)
(***************************************************************************)
\* everything but the call at rest
Idle ==
    /\ OrchInit({[max_pages |-> 1, concurrent_batches |-> 1,
                  max_retries |-> 1, enabled |-> TRUE]}, {NoneInt}, {BaseUrl})
    /\ rl = DefaultLimiter
    /\ now = 0
    /\ streak = NoStreak

SiteUrls == { BaseUrl, [kind |-> "page", n |-> 2], [kind |-> "page", n |-> 3] }

\* the navigation links of a page, in the order found: none, one, or two
LinkLists ==
    { <<>> } \cup { << u >> : u \in SiteUrls }
             \cup { << u, v >> : u \in SiteUrls, v \in SiteUrls }

InitDiscover ==
    /\ Idle
    /\ call \in { [fn |-> "discover_all_pages", base_url |-> BaseUrl,
                    links |-> l, raises |-> r, max_pages |-> m,
                    done |-> FALSE, ret |-> [urls |-> <<>>, fetches |-> <<>>]] :
                   l \in [SiteUrls -> LinkLists], r \in SUBSET SiteUrls,
                   m \in 1..MaxPagesBound }

DiscoverCall ==
    /\ call.fn = "discover_all_pages"
    /\ ~call.done
    /\ call' = [call EXCEPT
                  !.done = TRUE,
                  !.ret = DiscoverAllPagesOn(call.base_url, call.links,
                                             call.raises, call.max_pages)]
    /\ UNCHANGED << orch_vars, rl_vars, streak >>

NextDiscover == DiscoverCall

SpecDiscover == InitDiscover /\ [][NextDiscover]_vars

(***************************************************************************)
(* One call of PaginationDetector.detect_pagination on any URL and text.    *)
(***************************************************************************)
PageOfPhrases   == { <<>>, <<3, 12>>, <<1, 2>> }
\* "showing 5-4 of 10": no items; "showing 9-5 of 10": end before start;
\* "showing 10-10 of 10": one item on the last page
ShowingPhrases  ==
    { <<>>, <<1, 20, 50>>, <<1, 10, 95>>, <<10, 10, 10>>, <<5, 4, 10>>, <<9, 5, 10>> }
NextPagePhrases == { <<>>, <<2, 6801>> }
XOfYPhrases     == { <<>>, <<2, 7>>, <<7, 2>> }
ResultCounts    == { NoneInt, 0, 41, 95, 1000, 136019 }

DetectTexts ==
    { PageText(po, sh, np, xy, r, cm, nav, <<>>, FALSE) :
        po \in PageOfPhrases, sh \in ShowingPhrases, np \in NextPagePhrases,
        xy \in XOfYPhrases, r \in ResultCounts, cm \in BOOLEAN, nav \in BOOLEAN }

NoInfo == DetectPagination(NoContent, BaseUrl)

InitDetect ==
    /\ Idle
    /\ call \in { [fn |-> "detect_pagination", url |-> u, text |-> t,
                    done |-> FALSE, raised |-> FALSE, ret |-> NoInfo] :
                   u \in InitialUrls,
                   t \in { x \in DetectTexts : x.results # NoneInt \/ x.commas } }

DetectCall ==
    /\ call.fn = "detect_pagination"
    /\ ~call.done
    /\ call' = IF DetectRaises(call.text, call.url)
                  THEN [call EXCEPT !.done = TRUE, !.raised = TRUE]
                  ELSE [call EXCEPT !.done = TRUE,
                                    !.ret = DetectPagination(call.text, call.url)]
    /\ UNCHANGED << orch_vars, rl_vars, streak >>

NextDetect == DetectCall

SpecDetect == InitDetect /\ [][NextDetect]_vars

(***************************************************************************)
(* One call of generate_page_urls of a ParameterBasedStrategy or an         *)
(* IndicatorBasedStrategy whose pagination_info has total_pages known.      *)
(***************************************************************************)
MaxTotalPages == 4      \* largest pagination_info.total_pages
MaxQueryLen   == 2      \* most name=value pairs in the base URL's query

QueryNames  == { "q", "page", "p" }
QueryValues == { "", "news", "7" }
QueryPairs  == { [k |-> k, v |-> v] : k \in QueryNames, v \in QueryValues }

Queries == UNION { [1..n -> QueryPairs] : n \in 0..MaxQueryLen }

InitStrategy ==
    /\ Idle
    /\ call \in { [fn |-> "generate_page_urls", strategy |-> st,
                    info |-> [NoInfo EXCEPT !.base_url = Url(q),
                                            !.total_pages = t],
                    max_pages |-> m, done |-> FALSE,
                    ret |-> [page_urls |-> <<>>, total_pages_generated |-> 0]] :
                   st \in {"ParameterBasedStrategy", "IndicatorBasedStrategy"},
                   q \in Queries, t \in 1..MaxTotalPages,
                   m \in 0..MaxPagesBound }

StrategyCall ==
    /\ call.fn = "generate_page_urls"
    /\ ~call.done
    /\ LET urls ==
               IF call.strategy = "IndicatorBasedStrategy"
               THEN IndicatorGeneratePageUrls(call.info, call.max_pages)
               ELSE ParameterGeneratePageUrls(call.info, call.max_pages)
       IN  call' = [call EXCEPT
                      !.done = TRUE,
                      !.ret = [page_urls |-> urls,
                               total_pages_generated |-> Len(urls)]]
    /\ UNCHANGED << orch_vars, rl_vars, streak >>

NextStrategy == StrategyCall

SpecStrategy == InitStrategy /\ [][NextStrategy]_vars

(***************************************************************************)
(* detect_pagination on a seed URL with a query string, then                *)
(* PaginationStrategyFactory.create_strategy_from_info and                  *)
(* generate_page_urls.                                                      *)
(***************************************************************************)
PageParameterNames   == { "page", "p", "pg", "pageno" }
OffsetParameterNames == { "start", "offset", "from", "begin" }

SeedQueryPairs ==
    { [k |-> k, v |-> v] :
        k \in {"q"} \cup PageParameterNames \cup OffsetParameterNames,
        v \in {"2", "40", "news"} }

SeedQueries == UNION { [1..n -> SeedQueryPairs] : n \in 0..MaxQueryLen }

InitFactory ==
    /\ Idle
    /\ call \in { [fn |-> "create_strategy_from_info", url |-> Url(q),
                    text |-> t, max_pages |-> m, done |-> FALSE,
                    info |-> NoInfo, page_urls |-> <<>>] :
                   q \in SeedQueries,
                   t \in { NoContent,
                           PageText(<<3, 12>>, <<>>, <<>>, <<>>, NoneInt, TRUE,
                                    FALSE, <<>>, FALSE) },
                   m \in 1..MaxPagesBound }

FactoryCall ==
    /\ call.fn = "create_strategy_from_info"
    /\ ~call.done
    /\ LET info == DetectPagination(call.text, call.url)
       IN  call' = [call EXCEPT
                      !.done = TRUE,
                      !.info = info,
                      !.page_urls = GeneratePageUrls(info, call.max_pages)]
    /\ UNCHANGED << orch_vars, rl_vars, streak >>

NextFactory == FactoryCall

SpecFactory == InitFactory /\ [][NextFactory]_vars

(***************************************************************************)
(* One call of ParameterBasedStrategy.generate_page_urls with total_pages   *)
(* unknown.                                                                 *)
(***************************************************************************)
DefaultMaxPages == 1000     \* generate_page_urls(max_pages=1000)

InitEstimate ==
    /\ Idle
    /\ call \in { [fn |-> "estimate_total_pages",
                    info |-> [NoInfo EXCEPT !.total_pages = tp,
                                            !.total_items = ti,
                                            !.items_per_page = ipp,
                                            !.confidence_score = cs],
                    max_pages |-> m, done |-> FALSE, page_urls |-> <<>>] :
                   tp \in {NoneInt}, ti \in {NoneInt, 0, 95},
                   ipp \in {NoneInt, 0, 10}, cs \in 0..10,
                   m \in {0, MaxPagesBound, DefaultMaxPages} }

EstimateCall ==
    /\ call.fn = "estimate_total_pages"
    /\ ~call.done
    /\ call' = [call EXCEPT
                  !.done = TRUE,
                  !.page_urls = ParameterGeneratePageUrls(call.info, call.max_pages)]
    /\ UNCHANGED << orch_vars, rl_vars, streak >>

NextEstimate == EstimateCall

SpecEstimate == InitEstimate /\ [][NextEstimate]_vars

(***************************************************************************)
(* url_utils.merge_url_lists.  A UrlInfo is [url, detection_methods,        *)
(* detected_at]: detection_methods a list, detected_at a clock reading.     *)
(***************************************************************************)
MaxListLen == 2     \* most entries of the first list
MaxTime    == 2     \* latest detected_at

UrlInfo(url, detection_methods, detected_at) ==
    [url |-> url, detection_methods |-> detection_methods,
     detected_at |-> detected_at]

\* a URL seen again: the entry that replaces existing_info, with only the
\* methods merged and the time of the later entry taken as it comes
MergeSeenAgain_LastTime(existing_info, url_info) ==
    UrlInfo(existing_info.url,
            SetToSeq(Range(existing_info.detection_methods)
                     \cup Range(url_info.detection_methods)),
            url_info.detected_at)

\* a URL seen again: the entry that replaces existing_info in url_dict
MergeSeenAgain(existing_info, url_info) ==
    IF existing_info.detection_methods = url_info.detection_methods
    THEN IF url_info.detected_at > existing_info.detected_at
         THEN UrlInfo(existing_info.url, existing_info.detection_methods,
                      url_info.detected_at)
         ELSE existing_info
    ELSE UrlInfo(existing_info.url,
                 SetToSeq(Range(existing_info.detection_methods)
                          \cup Range(url_info.detection_methods)),
                 Max(existing_info.detected_at, url_info.detected_at))

RECURSIVE MergeInto(_, _)
\* the inner loop: url_dict (in insertion order) after the entries of url_list
MergeInto(url_dict, url_list) ==
    IF url_list = <<>> THEN url_dict
    ELSE LET url_info == Head(url_list)
             next == IF \E i \in DOMAIN url_dict : url_dict[i].url = url_info.url
                     THEN [i \in DOMAIN url_dict |->
                             IF url_dict[i].url = url_info.url
                             THEN MergeSeenAgain(url_dict[i], url_info)
                             ELSE url_dict[i]]
                     ELSE Append(url_dict, url_info)
         IN  MergeInto(next, Tail(url_list))

RECURSIVE MergeListsInto(_, _)
MergeListsInto(url_dict, url_lists) ==
    IF url_lists = <<>> THEN url_dict
    ELSE MergeListsInto(MergeInto(url_dict, Head(url_lists)), Tail(url_lists))

\* merge_url_lists: list(url_dict.values())
MergeUrlLists(url_lists) == MergeListsInto(<<>>, url_lists)

MergeUrls    == { "u1", "u2" }
MethodLists  == { <<"sitemap">>, <<"firecrawl">>, <<"sitemap", "firecrawl">>,
                  <<"firecrawl", "sitemap">> }
UrlInfos     == { UrlInfo(u, m, t) : u \in MergeUrls, m \in MethodLists,
                                     t \in 1..MaxTime }

InitMerge ==
    /\ Idle
    /\ call \in { [fn |-> "merge_url_lists", url_lists |-> << l1, l2 >>,
                    done |-> FALSE, ret |-> <<>>] :
                   l1 \in UNION { [1..n -> UrlInfos] : n \in 0..MaxListLen },
                   l2 \in UNION { [1..n -> UrlInfos] : n \in 0..1 } }

MergeCall ==
    /\ call.fn = "merge_url_lists"
    /\ ~call.done
    /\ call' = [call EXCEPT !.done = TRUE,
                            !.ret = MergeUrlLists(call.url_lists)]
    /\ UNCHANGED << orch_vars, rl_vars, streak >>

NextMerge == MergeCall

SpecMerge == InitMerge /\ [][NextMerge]_vars

(***************************************************************************)
(* UrlService.process_site and process_site_with_pagination: the UrlSet     *)
(* saved, given what the sources and the crawl of the top URLs find.        *)
(***************************************************************************)
\* create_url_info for each URL of a list
CreateUrlInfos(found, detection_method, at) ==
    [i \in DOMAIN found |-> UrlInfo(found[i], << detection_method >>, at)]

\* _get_urls_from_multiple_sources: merge_url_lists of the Firecrawl map and
\* the sitemap
GetUrlsFromMultipleSources(firecrawl_map, sitemap) ==
    MergeUrlLists(<< CreateUrlInfos(firecrawl_map, "firecrawl_map", 1),
                     CreateUrlInfos(sitemap, "sitemap", 1) >>)

\* _get_additional_urls_from_top_urls: the URLs of the crawl, deduplicated
GetAdditionalUrlsFromTopUrls(crawled) ==
    IF crawled = <<>> THEN <<>>
    ELSE MergeUrlLists(<< CreateUrlInfos(crawled, "firecrawl_crawl", 2) >>)

\* _get_additional_urls_from_top_urls_with_pagination: one UrlInfo per URL
\* found, as found
GetAdditionalUrlsFromTopUrlsWithPagination(crawled) ==
    CreateUrlInfos(crawled, "top_url_crawling", 2)

FoundLists(maxlen) == UNION { [1..n -> MergeUrls] : n \in 0..maxlen }

InitSite ==
    /\ Idle
    /\ call \in { [fn |-> f, firecrawl_map |-> fm, sitemap |-> sm,
                    crawled |-> cr, done |-> FALSE, url_set |-> <<>>] :
                   f \in {"process_site", "process_site_with_pagination"},
                   fm \in FoundLists(1), sm \in FoundLists(1),
                   cr \in FoundLists(MaxListLen) }

\* all_url_infos = discovery_result.urls + additional_urls, saved as UrlSet
ProcessSite ==
    /\ call.fn \in {"process_site", "process_site_with_pagination"}
    /\ ~call.done
    /\ LET discovery == GetUrlsFromMultipleSources(call.firecrawl_map, call.sitemap)
           additional_urls ==
               IF call.fn = "process_site"
               THEN GetAdditionalUrlsFromTopUrls(call.crawled)
               ELSE GetAdditionalUrlsFromTopUrlsWithPagination(call.crawled)
       IN  call' = [call EXCEPT !.done = TRUE,
                                !.url_set = discovery \o additional_urls]
    /\ UNCHANGED << orch_vars, rl_vars, streak >>

NextSite == ProcessSite

SpecSite == InitSite /\ [][NextSite]_vars

(***************************************************************************)
(* ContentExtractor._is_likely_article_url.  A URL is [netloc, segs,        *)
(* slash]: whether it has a host, the non-empty segments of its lower-cased  *)
(* path, and whether the path ends with "/".                                *)
(***************************************************************************)
MaxSegments == 4    \* most path segments

\* "news": a content section; "search", "apiary": begin with the negative
\* patterns /search and /api; "2024": four digits; "item": none of these
PathSegments == { "news", "search", "apiary", "2024", "item" }

\* segment i is followed by "/"
SlashAfter(u, i) == i < Len(u.segs) \/ u.slash

\* re.search(r'/news/', path) for a positive pattern
MatchesPositive(u) ==
    \E i \in DOMAIN u.segs : u.segs[i] = "news" /\ SlashAfter(u, i)

\* re.search(r'/search', path) for a negative pattern: a segment that begins
\* with the word
MatchesNegative(u) ==
    \E i \in DOMAIN u.segs : u.segs[i] \in {"search", "apiary"}

\* re.search(r'/\d{4}/', path)
MatchesDate(u) ==
    \E i \in DOMAIN u.segs : u.segs[i] = "2024" /\ SlashAfter(u, i)

\* _is_likely_article_url
IsLikelyArticleUrl(u) ==
    IF ~u.netloc THEN FALSE
    ELSE IF MatchesPositive(u) THEN TRUE
    ELSE IF MatchesNegative(u) THEN FALSE
    ELSE IF MatchesDate(u) THEN TRUE
    ELSE Len(u.segs) >= 3

InitArticle ==
    /\ Idle
    /\ call \in { [fn |-> "_is_likely_article_url",
                    url |-> [netloc |-> nl, segs |-> sg, slash |-> sl],
                    done |-> FALSE, ret |-> FALSE] :
                   nl \in BOOLEAN, sl \in BOOLEAN,
                   sg \in UNION { [1..n -> PathSegments] : n \in 0..MaxSegments } }

ArticleCall ==
    /\ call.fn = "_is_likely_article_url"
    /\ ~call.done
    /\ call' = [call EXCEPT !.done = TRUE, !.ret = IsLikelyArticleUrl(call.url)]
    /\ UNCHANGED << orch_vars, rl_vars, streak >>

NextArticle == ArticleCall

SpecArticle == InitArticle /\ [][NextArticle]_vars

(***************************************************************************)
(* A caller that issues its requests one after another, each after          *)
(* wait_if_needed.  The clock of the call is in milliseconds; starts are     *)
(* the clock readings at which the requests start.                          *)
(***************************************************************************)
MaxRequests == 4        \* requests the caller issues
StartClock  == 20000    \* time.time() at the first call, far above max_delay

\* the time the caller spends between a request's start and its next call of
\* wait_if_needed (0: the request is a task started and not awaited)
Elapses == { 0, 500, 1000, 1500 }

InitWait ==
    /\ OrchInit({[max_pages |-> 1, concurrent_batches |-> 1,
                  max_retries |-> 1, enabled |-> TRUE]}, {NoneInt}, {BaseUrl})
    /\ rl \in { NewLimiter(d[1], d[2], 60) : d \in LimiterDelays }
    /\ now = 0
    /\ streak = NoStreak
    /\ call = [fn |-> "wait_if_needed", clock |-> StartClock, starts |-> <<>>,
               waiting |-> TRUE]

\* await rate_limiter.wait_if_needed(), then the request starts
WaitIfNeeded ==
    /\ call.fn = "wait_if_needed"
    /\ call.waiting
    /\ Len(call.starts) < MaxRequests
    /\ LET g == GetDelay(rl, call.clock)
       IN  /\ rl' = g.limiter
           /\ call' = [call EXCEPT !.clock = @ + g.delay,
                                   !.starts = Append(@, call.clock + g.delay),
                                   !.waiting = FALSE]
    /\ UNCHANGED << orch_vars, now, streak >>

\* the caller comes back for its next request
Elapse(d) ==
    /\ call.fn = "wait_if_needed"
    /\ ~call.waiting
    /\ call' = [call EXCEPT !.clock = @ + d, !.waiting = TRUE]
    /\ UNCHANGED << orch_vars, rl_vars, streak >>

NextWait ==
    \/ WaitIfNeeded
    \/ \E d \in Elapses : Elapse(d)

SpecWait == InitWait /\ [][NextWait]_vars

(***************************************************************************)
(* process_with_rate_limiting, one step per await.  items are the top URLs  *)
(* of UrlService (strings), named by their index.  The clock stays at 0:    *)
(* the sleeps take no part in what is returned or counted.                  *)
(***************************************************************************)
MaxItems       == 2     \* largest len(items)
MaxProcRetries == 2     \* largest max_retries

\* a processor that leaves the recording to its caller, and the closure
\* process_single_url of UrlService
Processors == { "plain", "process_single_url" }

\* what one call of the processor does: returns a value, returns None, raises,
\* raises a rate-limit error ("429" or "rate limit" in the message);
\* process_single_url returns a list, never None
ProcessorOutcomes(processor) ==
    IF processor = "process_single_url"
    THEN { "ok", "error", "rate_limit" }
    ELSE { "ok", "none", "error", "rate_limit" }

Raises(o) == o \in { "error", "rate_limit" }

\* the limiter after the processor ran: process_single_url records a failure
\* in its except block before it raises again
ProcessorRecords(processor, l, o) ==
    IF processor = "process_single_url" /\ Raises(o)
    THEN RecordEventAt(l, now, FALSE, o = "rate_limit")
    ELSE l

\* the value stored for items[idx]
ProcessorResult(idx, o) ==
    IF o = "none" THEN [status |-> "None", item |-> 0]
    ELSE [status |-> "result", item |-> idx]

NoneResult == [status |-> "None", item |-> 0]

EmergencyFallback_Skipped(results) == results

\* the final pass over results: every None becomes a placeholder
EmergencyFallback(results) ==
    [i \in DOMAIN results |->
        IF results[i] = NoneResult
        THEN [status |-> "emergency_fallback", item |-> i]
        ELSE results[i]]

\* the bookkeeping of one processor call on items[idx]
Attempted(c, idx, o) ==
    [c EXCEPT !.attempts[idx] = @ + 1,
              !.again = @ \/ idx \in c.succeeded,
              !.succeeded = IF Raises(o) THEN @ ELSE @ \cup {idx},
              !.rate_limited = @ + (IF o = "rate_limit" THEN 1 ELSE 0)]

InitProcess ==
    /\ Idle
    /\ \E n \in 1..MaxItems, b \in 1..MaxBatchBound, r \in 0..MaxProcRetries,
          p \in Processors :
          call = [fn |-> "process_with_rate_limiting", items |-> n,
                  processor |-> p, batch_size |-> b, max_retries |-> r,
                  at |-> "create", i |-> 0, batch_tasks |-> <<>>,
                  task_outcome |-> [k \in 1..n |-> "ok"],
                  results |-> [k \in 1..n |-> NoneResult],
                  failed_items |-> <<>>, current_failed |-> <<>>,
                  retry_count |-> 0,
                  attempts |-> [k \in 1..n |-> 0], succeeded |-> {},
                  again |-> FALSE, rate_limited |-> 0, ret |-> <<>>]

\* await wait_if_needed(); task = asyncio.create_task(processor(item))
CreateTask(o) ==
    /\ call.fn = "process_with_rate_limiting"
    /\ call.at = "create"
    /\ LET idx == call.i + Len(call.batch_tasks) + 1
           last == Min(call.i + call.batch_size, call.items)
       IN  /\ idx <= last
           /\ o \in ProcessorOutcomes(call.processor)
           /\ rl' = ProcessorRecords(call.processor,
                                     GetDelay(rl, now).limiter, o)
           /\ call' = [Attempted(call, idx, o) EXCEPT
                         !.batch_tasks = Append(@, idx),
                         !.task_outcome[idx] = o,
                         !.at = IF idx = last THEN "await" ELSE "create"]
    /\ UNCHANGED << orch_vars, now, streak >>

\* result = await task, for the tasks of the batch in order; after the last
\* one the next batch, or the retry loop
AwaitTask ==
    /\ call.fn = "process_with_rate_limiting"
    /\ call.at = "await"
    /\ LET idx == Head(call.batch_tasks)
           o == call.task_outcome[idx]
           rest == Tail(call.batch_tasks)
           next_i == call.i + call.batch_size
           c1 == IF Raises(o)
                 THEN [call EXCEPT !.failed_items = Append(@, idx)]
                 ELSE [call EXCEPT !.results[idx] = ProcessorResult(idx, o)]
       IN  /\ rl' = RecordEventAt(rl, now, ~Raises(o), o = "rate_limit")
           /\ call' = [c1 EXCEPT
                         !.batch_tasks = rest,
                         !.i = IF rest = <<>> THEN next_i ELSE @,
                         !.at = IF rest # <<>> THEN "await"
                                ELSE IF next_i < call.items THEN "create"
                                ELSE "retry"]
    /\ UNCHANGED << orch_vars, now, streak >>

\* while failed_items and retry_count < max_retries: the next round
RetryRound ==
    /\ call.fn = "process_with_rate_limiting"
    /\ call.at = "retry"
    /\ call.current_failed = <<>>
    /\ call.failed_items # <<>>
    /\ call.retry_count < call.max_retries
    /\ call' = [call EXCEPT !.retry_count = @ + 1,
                            !.current_failed = call.failed_items,
                            !.failed_items = <<>>]
    /\ UNCHANGED << orch_vars, rl_vars, streak >>

\* one item of current_failed: wait, call the processor, record
RetryItem(o) ==
    /\ call.fn = "process_with_rate_limiting"
    /\ call.at = "retry"
    /\ call.current_failed # <<>>
    /\ o \in ProcessorOutcomes(call.processor)
    /\ LET idx == Head(call.current_failed)
           c0 == Attempted(call, idx, o)
           c1 == IF ~Raises(o)
                 THEN [c0 EXCEPT !.results[idx] = ProcessorResult(idx, o)]
                 ELSE IF call.retry_count < call.max_retries
                 THEN [c0 EXCEPT !.failed_items = Append(@, idx)]
                 ELSE [c0 EXCEPT !.results[idx] =
                                     [status |-> "failed", item |-> idx]]
       IN  /\ rl' = RecordEventAt(
                        ProcessorRecords(call.processor,
                                         GetDelay(rl, now).limiter, o),
                        now, ~Raises(o), o = "rate_limit")
           /\ call' = [c1 EXCEPT !.current_failed = Tail(@)]
    /\ UNCHANGED << orch_vars, now, streak >>

\* the loop is over: the final verification, and return results
ReturnResults ==
    /\ call.fn = "process_with_rate_limiting"
    /\ call.at = "retry"
    /\ call.current_failed = <<>>
    /\ call.failed_items = <<>> \/ call.retry_count >= call.max_retries
    /\ call' = [call EXCEPT !.at = "done",
                            !.ret = EmergencyFallback(call.results)]
    /\ UNCHANGED << orch_vars, rl_vars, streak >>

NextProcess ==
    \/ \E o \in ProcessorOutcomes("plain") : CreateTask(o)
    \/ AwaitTask
    \/ RetryRound
    \/ \E o \in ProcessorOutcomes("plain") : RetryItem(o)
    \/ ReturnResults

SpecProcess == InitProcess /\ [][NextProcess]_vars

(***************************************************************************)
(* Properties of the orchestrator.                                         *)
(***************************************************************************)
Done == pc = "done"

\* the seed was fetched
SeedFetched == initial_content # <<>>

\* the run went through _handle_paginated_content
BatchRun ==
    /\ crawl_result.pagination_info # <<>>
    /\ crawl_result.pagination_info[1].has_pagination
    /\ settings.enabled

TaskFinished(p) == tasks[p].st \in {"ok", "failed", "raised"}

NoDuplicates(seq) == \A i, j \in DOMAIN seq : seq[i] = seq[j] => i = j

Mentions(msgs, url) == \E i \in DOMAIN msgs : msgs[i].url = url

\* C1: process_site_with_pagination always ends by returning its CrawlResult
\* and never raises, whatever crawl_function does on each call; and when the
\* batches ran, every page of the list was fetched and its task ended, also
\* the pages after one whose fetch failed for good.
C1_TerminatesReturning ==
    /\ [](outcome # "raised")
    /\ <>(Done /\ outcome = "returned")
    /\ [](Done /\ BatchRun =>
            \A p \in DOMAIN page_urls :
                TaskFinished(p) /\ page_urls[p] \in fetched)

C1_Witness ==
    /\ Done
    /\ outcome = "returned"
    /\ \E p, q \in DOMAIN tasks :
          p < q /\ tasks[p].st = "failed" /\ tasks[q].st = "ok"

\* C2: when every fetch attempt of the seed URL failed, the result returned
\* has an error for the seed URL, no pagination_info, empty article_urls and
\* urls_discovered, and crawl_function was called on no other URL.
C2_SeedFailure ==
    Done /\ ~SeedFetched =>
        /\ Mentions(crawl_result.errors, initial_url)
        /\ crawl_result.pagination_info = <<>>
        /\ crawl_result.article_urls = <<>>
        /\ crawl_result.urls_discovered = <<>>
        /\ fetched \subseteq {initial_url}

C2_Witness == Done /\ ~SeedFetched /\ fetch_count = MaxRetriesBound

\* C3 (as claimed): every run whose seed fetch succeeded ends finalized:
\* article_urls without duplicates, total_urls_found = len(article_urls),
\* crawling_time_seconds stamped.
C3_AlwaysFinalized ==
    Done /\ SeedFetched =>
        /\ finalized
        /\ crawl_result.crawling_time_stamped
        /\ NoDuplicates(crawl_result.article_urls)
        /\ crawl_result.total_urls_found = Len(crawl_result.article_urls)

\* C4 (as claimed): in the result returned, total_pages_crawled is the number
\* of pages fetched and extracted, the length of urls_discovered; for a seed
\* without pagination (or with pagination disabled) it is 1.
C4_PagesCrawled ==
    Done /\ finalized =>
        /\ crawl_result.total_pages_crawled = Len(crawl_result.urls_discovered)
        /\ (~BatchRun /\ ~initial_content[1].extract_raises =>
                /\ crawl_result.total_pages_crawled = 1
                /\ fetched = {initial_url}
                /\ Range(crawl_result.article_urls) = Range(initial_content[1].arts))

\* C5 (as claimed): every page of the list whose fetch failed for good or
\* whose extraction raised has a string in errors or warnings naming its URL.
C5_NoSilentFailure ==
    Done /\ finalized /\ BatchRun =>
        \A p \in DOMAIN tasks :
            tasks[p].st \in {"failed", "raised"} =>
                \/ Mentions(crawl_result.errors, page_urls[p])
                \/ Mentions(crawl_result.warnings, page_urls[p])

\* C6 (as claimed): _safe_crawl calls crawl_function at most max_retries
\* times, and between a failed attempt k and the next one it has slept 2**k
\* seconds, whether attempt k raised or returned nothing.
C6_RetryBackoff ==
    /\ seed_attempt <= settings.max_retries
    /\ (pc = "seed" /\ seed_attempt >= 1 => seed_waited = Pow2(seed_attempt - 1))
    /\ \A p \in DOMAIN tasks :
          /\ tasks[p].attempt <= settings.max_retries
          /\ (tasks[p].st = "run" /\ tasks[p].attempt >= 1 =>
                tasks[p].waited = Pow2(tasks[p].attempt - 1))

\* the batch an index of the page list falls in
ChunkOf(p) == (p - 1) \div batch_size

ClaimedBudget == IF max_pages_arg # NoneInt THEN max_pages_arg ELSE settings.max_pages

\* C8 (as claimed): the page list given to the batches is no longer than the
\* page budget, the max_pages argument when passed (also 0), else the
\* settings' max_pages.
C8_PageBudget ==
    (pc \in {"batch", "done"} /\ BatchRun) => Len(page_urls) <= ClaimedBudget

\* C9 (as claimed): every call of crawl_function by the orchestrator is
\* recorded in the AdaptiveRateLimiter.
C9_FetchesRecorded == rl.total_requests = fetch_count

(***************************************************************************)
(* Properties of the rate limiter.                                         *)
(***************************************************************************)
\* C10: for a limiter built with min_delay <= max_delay, after any sequence
\* of record_event calls min_delay <= current_delay <= max_delay.
C10_DelayClamped ==
    rl.min_delay <= rl.max_delay =>
        rl.min_delay <= rl.current_delay /\ rl.current_delay <= rl.max_delay

C10_Witness ==
    /\ rl.min_delay < rl.max_delay
    /\ rl.total_requests > 0
    /\ rl.current_delay = rl.max_delay

(***************************************************************************)
(* Properties of the rate limiter under a run of equal outcomes.           *)
(***************************************************************************)
\* the rate-limited fraction of the events in the window exceeds
\* rate_limit_threshold
WindowRateLimited(l) ==
    /\ Len(l.events) > 0
    /\ Cardinality({ i \in DOMAIN l.events : l.events[i].is_rate_limit }) * 100
          > RateLimitThresholdPct * Len(l.events)

\* only the run has been recorded since it began
OnlyStreakSince == rl.total_requests = streak.start_total + streak.n

\* C11 (as claimed): whenever record_event leaves a window whose rate-limited
\* fraction exceeds rate_limit_threshold, it has multiplied current_delay by a
\* factor between 1.2 and 1.5, capped at max_delay, so the delay has grown
\* when it was below max_delay; what was recorded before the window does not
\* matter.
C11_WindowIncrease ==
    [][ (rl'.total_requests = rl.total_requests + 1 /\ WindowRateLimited(rl')) =>
            /\ rl'.current_delay >= Min(Scale(rl.current_delay, 12), rl.max_delay)
            /\ rl'.current_delay <= Min(Scale(rl.current_delay, 15), rl.max_delay)
            /\ (rl.current_delay < rl.max_delay =>
                    rl'.current_delay > rl.current_delay) ]_vars

C13_SuccessStreak ==
    /\ [][ (streak'.kind = "success" /\ streak'.n = streak.n + 1) =>
               rl'.current_delay <= rl.current_delay ]_vars
    /\ []( (streak.kind = "success" /\ OnlyStreakSince) =>
               /\ rl.current_delay >= rl.min_delay
               /\ (streak.n = StreakLen /\ streak.start_delay > rl.min_delay =>
                      rl.current_delay < streak.start_delay) )

(***************************************************************************)
(* Properties of discover_all_pages.                                       *)
(***************************************************************************)
\* the pages reachable from the base URL by navigation links
ReachStep(S, links) == S \cup UNION { Range(links[u]) : u \in S }
Reachable(base_url, links) ==
    ReachStep(ReachStep(ReachStep({base_url}, links), links), links)

\* C14: on every link graph, cyclic ones included, and for max_pages >= 1,
\* discover_all_pages returns at most max_pages URLs, none twice, and has
\* called crawl_function on no URL more than once.
C14_DiscoverBounded ==
    (call.fn = "discover_all_pages" /\ call.done) =>
        /\ Len(call.ret.urls) <= call.max_pages
        /\ NoDuplicates(call.ret.urls)
        /\ NoDuplicates(call.ret.fetches)

C14_Witness ==
    /\ call.fn = "discover_all_pages" /\ call.done
    /\ call.max_pages >= 2
    /\ call.raises = {}
    /\ \E u \in SiteUrls \ {call.base_url} :
          /\ u \in Range(call.links[call.base_url])
          /\ call.base_url \in Range(call.links[u])

\* C15 (as claimed): discover_all_pages fetches the base page and follows the
\* links breadth-first: when every page can be fetched and no more than
\* max_pages pages are reachable from the base URL, it returns exactly the
\* reachable pages (A, B and C for the chain A -> B -> C and max_pages >= 3).
C15_DiscoverReachable ==
    (call.fn = "discover_all_pages" /\ call.done /\ call.raises = {}) =>
        /\ call.base_url \in Range(call.ret.fetches)
        /\ (Cardinality(Reachable(call.base_url, call.links)) <= call.max_pages =>
                Range(call.ret.urls) = Reachable(call.base_url, call.links))

(***************************************************************************)
(* Properties of detect_pagination.                                        *)
(***************************************************************************)
Detected == call.fn = "detect_pagination" /\ call.done
Returned == Detected /\ ~call.raised
ContentSignal == DetectContentPatterns(call.text) # {}
UrlSignal     == DetectUrlPatterns(call.url) # {}

\* C16 (as claimed): detect_pagination raises on no text and URL, texts with
\* "showing A-B of C" for any A, B, C included, and the confidence score it
\* returns is between 0 and 1.
C16_NeverRaises ==
    Detected =>
        /\ ~call.raised
        /\ call.ret.confidence_score >= 0
        /\ call.ret.confidence_score <= 10

\* C17 (as claimed): a content pattern with total_pages known gives
\* INDICATOR_BASED even when the URL has a pagination parameter ("page 3 of
\* 12" alone: current_page 3, total_pages 12); otherwise a URL parameter
\* gives OFFSET_BASED if an offset-style one matched, else PARAMETER_BASED;
\* otherwise a content pattern gives INDICATOR_BASED; no signal gives NONE.
C17_Classification ==
    Returned =>
        LET info == call.ret IN
        /\ (ContentSignal /\ info.total_pages # NoneInt) =>
               info.pagination_type = "INDICATOR_BASED"
        /\ ( /\ call.text.pageOf = <<3, 12>> /\ call.text.showing = <<>>
             /\ call.text.nextPage = <<>> /\ call.text.results = NoneInt ) =>
               /\ info.pagination_type = "INDICATOR_BASED"
               /\ info.current_page = 3 /\ info.total_pages = 12
        /\ (~(ContentSignal /\ info.total_pages # NoneInt) /\ UrlSignal) =>
               info.pagination_type =
                   IF "URL_PARAM_offset_based" \in DetectUrlPatterns(call.url)
                   THEN "OFFSET_BASED" ELSE "PARAMETER_BASED"
        /\ (ContentSignal /\ info.total_pages = NoneInt /\ ~UrlSignal) =>
               info.pagination_type = "INDICATOR_BASED"
        /\ (~ContentSignal /\ ~UrlSignal /\ ~call.text.nav) =>
               info.pagination_type = "NONE"

\* C18 (as claimed): a page whose only pagination signal is a navigation
\* link is classified LINK_BASED.
C18_NavOnlyLinkBased ==
    (Returned /\ call.text.nav /\ ~ContentSignal /\ ~UrlSignal) =>
        call.ret.pagination_type = "LINK_BASED"

\* C19 (as claimed): when the text has "N results", total_pages is
\* ceil(N / 20), whatever "Next page: X of Y", "page X of Y" or "showing A-B
\* of C" say.
C19_ResultsOverride ==
    (Returned /\ call.text.results # NoneInt) =>
        call.ret.total_pages = CeilDiv(call.text.results, 20)

(***************************************************************************)
(* Properties of generate_page_urls.                                       *)
(***************************************************************************)
\* the URL with parameter name set to page and nothing else changed: the
\* value of its first name= pair replaced (further name= pairs dropped), or
\* name=page appended
WithParameter(url, name, page) ==
    LET q    == url.query
        idx  == { i \in DOMAIN q : q[i].k = name }
        set  == [k |-> name, v |-> ToString(page)]
        gone == [k |-> "", v |-> ""]
    IN  IF idx = {} THEN Url(Append(q, set))
        ELSE LET i0 == CHOOSE i \in idx : \A j \in idx : i <= j
             IN  Url(SelectSeq([i \in DOMAIN q |->
                                  IF i = i0 THEN set
                                  ELSE IF i \in idx THEN gone ELSE q[i]],
                               LAMBDA pr : pr # gone))

\* the parameter the strategy of the call paginates with
PaginationParameter ==
    IF call.strategy = "IndicatorBasedStrategy" THEN "page"
    ELSE DetectParameterName(call.info.base_url)

\* C20 (as claimed): with total_pages = T >= 1 known and max_pages >= 0,
\* generate_page_urls of the parameter-based and of the indicator-based
\* strategy returns min(T, max_pages) URLs in page order: the first is the
\* base URL unmodified, the N-th is the base URL with the pagination
\* parameter set to N; total_pages_generated is the length of the list.
C20_GeneratedUrls ==
    (call.fn = "generate_page_urls" /\ call.done) =>
        LET urls == call.ret.page_urls IN
        /\ Len(urls) = Min(call.info.total_pages, call.max_pages)
        /\ call.ret.total_pages_generated = Len(urls)
        /\ \A n \in DOMAIN urls :
              urls[n] = IF n = 1 THEN call.info.base_url
                        ELSE WithParameter(call.info.base_url,
                                           PaginationParameter, n)

(***************************************************************************)
(* Properties of the strategy built from the detector's PaginationInfo.    *)
(***************************************************************************)
\* the seed URL paginates with parameter name: it is the only pagination
\* parameter of the query, with a number as value
PaginatesWith(name) ==
    /\ \E i \in DOMAIN call.url.query :
          call.url.query[i].k = name /\ IsDigits(call.url.query[i].v)
    /\ \A i \in DOMAIN call.url.query :
          call.url.query[i].k \in {name, "q"}

HasParameter(url, name, value) ==
    \E i \in DOMAIN url.query : url.query[i] = [k |-> name, v |-> ToString(value)]

\* C21 (as claimed): for a seed URL that paginates with p, pg or pageno, or
\* with the offset parameter offset, from or begin, the pages 2..N that the
\* strategy of create_strategy_from_info generates set that same parameter.
C21_SameParameterName ==
    (call.fn = "create_strategy_from_info" /\ call.done) =>
        \A name \in {"p", "pg", "pageno", "offset", "from", "begin"} :
            PaginatesWith(name) =>
                \A n \in DOMAIN call.page_urls :
                    n >= 2 => \E i \in DOMAIN call.page_urls[n].query :
                                 call.page_urls[n].query[i].k = name

\* C22 (as claimed): with total_pages unknown, ParameterBasedStrategy
\* generates min(E, max_pages) pages, E = 100 for confidence_score >= 0.7,
\* 50 for 0.4 <= confidence_score < 0.7, 20 below 0.4, whatever the other
\* fields of the PaginationInfo.
C22_EstimateByConfidence ==
    (call.fn = "estimate_total_pages" /\ call.done) =>
        Len(call.page_urls) =
            Min(IF call.info.confidence_score >= 7 THEN 100
                ELSE IF call.info.confidence_score >= 4 THEN 50 ELSE 20,
                call.max_pages)

(***************************************************************************)
(* Properties of merge_url_lists.                                          *)
(***************************************************************************)
\* the entries of all the input lists
Occurrences(url_lists) == UNION { Range(url_lists[i]) : i \in DOMAIN url_lists }

\* a merged list as the set of its (url, set of methods, time)
MergedSet(merged) ==
    { << e.url, Range(e.detection_methods), e.detected_at >> : e \in Range(merged) }

Reversed(sq) == [i \in DOMAIN sq |-> sq[Len(sq) + 1 - i]]

C24_UrlSetUnique ==
    (call.fn \in {"process_site", "process_site_with_pagination"} /\ call.done) =>
        /\ \A i, j \in DOMAIN call.url_set :
              call.url_set[i].url = call.url_set[j].url => i = j
        /\ \A u \in (Range(call.firecrawl_map) \cup Range(call.sitemap))
                      \cap Range(call.crawled) :
              \E e \in Range(call.url_set) :
                  /\ e.url = u
                  /\ Range(e.detection_methods) \cap {"firecrawl_map", "sitemap"} # {}
                  /\ Range(e.detection_methods)
                        \cap {"firecrawl_crawl", "top_url_crawling"} # {}

(***************************************************************************)
(* Properties of _is_likely_article_url.                                   *)
(***************************************************************************)
\* C25 (as claimed): a URL without netloc is rejected; a URL whose path
\* matches a negative pattern is rejected, also when it matches a positive
\* pattern; of the others, those matching a positive pattern or having a
\* /YYYY/ segment are accepted, and the rest exactly when the path has at
\* least 3 segments.
C25_ArticleUrlRule ==
    (call.fn = "_is_likely_article_url" /\ call.done) =>
        call.ret = ( /\ call.url.netloc
                     /\ ~MatchesNegative(call.url)
                     /\ \/ MatchesPositive(call.url)
                        \/ MatchesDate(call.url)
                        \/ Len(call.url.segs) >= 3 )

(***************************************************************************)
(* Properties of wait_if_needed.                                           *)
(***************************************************************************)
\* C28 (as claimed): two consecutive requests of a caller that goes through
\* wait_if_needed before each start at least current_delay apart.
C28_RequestSpacing ==
    call.fn = "wait_if_needed" =>
        \A i \in DOMAIN call.starts :
            i > 1 => call.starts[i] - call.starts[i - 1] >= rl.current_delay

(***************************************************************************)
(* Properties of process_with_rate_limiting.                               *)
(***************************************************************************)
Processing == call.fn = "process_with_rate_limiting"

C29_AttemptsRecordedOnce ==
    (Processing /\ call.at = "done") =>
        /\ LET Calls[k \in 0..call.items] ==
                   IF k = 0 THEN 0 ELSE call.attempts[k] + Calls[k - 1]
           IN  rl.total_requests = Calls[call.items]
        /\ rl.rate_limit_count = call.rate_limited

(***************************************************************************)
(* Properties of the page tasks of a batch.                                *)
(***************************************************************************)
\* the places of a page URL in urls_discovered
PlacesOf(url) ==
    { k \in DOMAIN crawl_result.urls_discovered :
        crawl_result.urls_discovered[k] = url }

\* C27: whatever order the page tasks of a batch run and finish in, no update
\* of the shared CrawlResult is lost: the URL of every page that was fetched
\* and extracted is in urls_discovered exactly once, and every article URL
\* extracted from it is in article_urls.
C27_NoLostUpdate ==
    BatchRun =>
        \A p \in DOMAIN tasks :
            tasks[p].st = "ok" =>
                /\ Cardinality(PlacesOf(page_urls[p])) = 1
                /\ Range(SiteArticles(page_urls[p]))
                       \subseteq Range(crawl_result.article_urls)

\* two tasks of one batch have both updated the result, the later page first
C27_Witness ==
    /\ BatchRun
    /\ \E p, q \in DOMAIN tasks :
          /\ p < q
          /\ ChunkOf(p) = ChunkOf(q)
          /\ tasks[p].st = "ok" /\ tasks[q].st = "ok"
          /\ \E k \in PlacesOf(page_urls[q]), m \in PlacesOf(page_urls[p]) : k < m

(***************************************************************************)
(* Properties of the page numbers detect_pagination returns.               *)
(***************************************************************************)
\* the text has no "showing A-B of C", or one with 1 <= A <= B <= C
ShowingInOrder ==
    LET sh == call.text.showing
    IN  sh # <<>> => (1 <= sh[1] /\ sh[1] <= sh[2] /\ sh[2] <= sh[3])

\* C30 (as claimed): when detect_pagination returns both current_page and
\* total_pages, 1 <= current_page <= total_pages, for every URL and every
\* combination of "page X of Y", "showing A-B of C" with 1 <= A <= B <= C and
\* "N results" in the text.
C30_CurrentWithinTotal ==
    (Returned /\ ShowingInOrder) =>
        LET info == call.ret
        IN  (info.current_page # NoneInt /\ info.total_pages # NoneInt) =>
                (1 <= info.current_page /\ info.current_page <= info.total_pages)

====
